---- MODULE Spec2Model ----
(***************************************************************************)
(* Model of src/main.py: the portal login script.                          *)
(*                                                                         *)
(* main() resolves a (url, username, password) triple with                 *)
(* get_user_credentials(), aborts when a field is empty, and otherwise     *)
(* runs login_to_portal(), a straight-line sequence of browser calls       *)
(* wrapped in nested try/except blocks that ends in an endless             *)
(* wait_for_timeout loop.                                                  *)
(*                                                                         *)
(* Python strings are sequences of one-character strings, so that          *)
(* str.strip() and str.lower() are computed and not assumed.  Every call   *)
(* into Playwright or AgentQL either completes (and has its effect) or     *)
(* raises an Exception (and has none); which of the two happens is chosen  *)
(* nondeterministically.  KeyboardInterrupt (Ctrl+C) is delivered while    *)
(* the program blocks in one of its two wait_for_timeout loops.            *)
(***************************************************************************)
EXTENDS Integers, Sequences, FiniteSets, TLC

\* longest answer typed at a credential prompt
MaxLen == 2

\* completed wait_for_timeout(1000) calls that are counted
MaxTicks == 1

Chars == {" ", "a"}

Whitespace == {" "}

\* Python's None (os.getenv of a key that is not set), apart from every string
None == <<"None">>

default_url == <<"https://auth.reedexpo.com/secure/Account/Login">>

Strings == UNION {[1..k -> Chars] : k \in 0..MaxLen}

\* values os.getenv can give for a key of an existing .env file
StoredValues == {None, <<>>, <<"a">>, <<" ", "b">>}

ConfirmingAnswers == {<<>>, <<" ">>, <<"y">>, <<"Y">>, <<" ", "y">>}

DecliningAnswers == {<<"n">>, <<"N">>, <<"y", "e", "s">>}

UseEnvAnswers == ConfirmingAnswers \cup DecliningAnswers

\* the stored triples and typed answers of the whole-program specification
ShortStored == [url : {<<>>, <<"u">>}, username : {<<>>, <<"a">>}, password : {<<>>, <<"b">>}]

ShortUseEnvAnswers == {<<>>, <<"n">>}

ShortAnswers == {<<>>, <<" ">>, <<"a">>}

VARIABLES fileExists, stored, inputs, url, username, password, pc, exc, page, browsers, userField, passField, trace, steps, ticks

vars == <<fileExists, stored, inputs, url, username, password, pc, exc, page, browsers, userField, passField, trace, steps, ticks>>

credVars == <<fileExists, stored, inputs, url, username, password>>

----------------------------------------------------------------------------
(* pure helpers *)

RECURSIVE lstrip(_)
lstrip(s) == IF s # <<>> /\ Head(s) \in Whitespace THEN lstrip(Tail(s)) ELSE s

RECURSIVE rstrip(_)
rstrip(s) == IF s # <<>> /\ s[Len(s)] \in Whitespace THEN rstrip(SubSeq(s, 1, Len(s) - 1)) ELSE s

strip(s) == rstrip(lstrip(s))

lowerChar(c) == IF c = "Y" THEN "y" ELSE IF c = "N" THEN "n" ELSE c

lower(s) == [i \in 1..Len(s) |-> lowerChar(s[i])]

\* Python truthiness of a str-or-None value
Truthy(v) == v # None /\ v # <<>>

AllTruthyNoPassword(u, n, p) == Truthy(u) /\ Truthy(n)

\* all([url, username, password])
AllTruthy(u, n, p) == Truthy(u) /\ Truthy(n) /\ Truthy(p)

\* read_default_credentials(): the triple it returns
read_default_credentials == IF ~fileExists THEN [url |-> <<>>, username |-> <<>>, password |-> <<>>] ELSE stored

PromptIfMissingNoStrip(value, answer) == IF ~Truthy(value) THEN answer ELSE value

\* input(...).strip() if not value else value
PromptIfMissing(value, answer) == IF ~Truthy(value) THEN strip(answer) ELSE value

\* url if url else default_url
UrlOrDefault(u) == IF Truthy(u) THEN u ELSE default_url

use_env_declines_no_lower(answer) == strip(answer) # <<"y">> /\ strip(answer) # <<>>

\* use_env != 'y' and use_env != ''  with use_env = input(...).strip().lower()
use_env_declines(answer) == lower(strip(answer)) # <<"y">> /\ lower(strip(answer)) # <<>>

Ask(prompt, answer) == <<[prompt |-> prompt, answer |-> answer]>>

----------------------------------------------------------------------------
(* control flow *)

LoginPcs == {"start_playwright", "launch", "new_context", "new_page", "goto", "wait_load", "wait_user", "wait_pass", "query_form", "fill_user", "fill_pass", "click", "fb_fill_user", "fb_fill_pass", "fb_click", "wait_submit", "popup_query", "popup_click", "hub_query", "hub_click", "hub_text_click", "final_goto", "final_wait", "idle", "except", "except_idle", "finally"}

\* the step of the login sequence a statement belongs to
StepOf(p) ==
  CASE p \in {"start_playwright", "launch", "new_context", "new_page", "goto", "wait_load"} -> "Start"
    [] p \in {"wait_user", "wait_pass"} -> "FormVisible"
    [] p \in {"query_form", "fill_user", "fill_pass", "click", "fb_fill_user", "fb_fill_pass", "fb_click", "wait_submit"} -> "Submitted"
    [] p \in {"popup_query", "popup_click"} -> "PopupHandled"
    [] p \in {"hub_query", "hub_click", "hub_text_click"} -> "HubEntered"
    [] p \in {"final_goto", "final_wait"} -> "FinalNav"
    [] p \in {"idle", "except", "except_idle"} -> "Idle"
    [] OTHER -> "Outside"

Goto(next) ==
  /\ pc' = next
  /\ steps' = IF StepOf(next) # StepOf(pc) /\ StepOf(next) # "Outside" THEN Append(steps, StepOf(next)) ELSE steps

\* statement `label` runs with the given outcome and control moves to `next`
Exec(label, ok, next) ==
  /\ pc = label
  /\ trace' = Append(trace, [op |-> label, ok |-> ok])
  /\ Goto(next)

\* the state at the start of main(), the .env file holding one of `triples` or missing
InitWith(triples) ==
  /\ fileExists \in BOOLEAN
  /\ stored \in triples \cup {[url |-> None, username |-> None, password |-> None]}
  /\ (~fileExists <=> stored = [url |-> None, username |-> None, password |-> None])
  /\ inputs = <<>>
  /\ url = None
  /\ username = None
  /\ password = None
  /\ pc = "main_start"
  /\ exc = "none"
  /\ page = FALSE
  /\ browsers = 0
  /\ userField = <<>>
  /\ passField = <<>>
  /\ trace = <<>>
  /\ steps = <<>>
  /\ ticks = 0

Init == InitWith(ShortStored)

\* the start of main() for the credential functions alone: every stored triple
InitCred == InitWith([url : StoredValues, username : StoredValues, password : StoredValues])

----------------------------------------------------------------------------
(* main() and get_user_credentials() *)

loginVars == <<exc, page, browsers, userField, passField, ticks>>

\* get_user_credentials(): reads the stored triple, prompts, returns
GetUserCredentials(useAnswers, answers) ==
  /\ pc = "main_start"
  /\ \E aUse \in useAnswers, aUrl \in answers, aUser \in answers, aPass \in answers :
       LET r == read_default_credentials
       IN IF ~AllTruthy(r.url, r.username, r.password)
          THEN /\ url' = UrlOrDefault(PromptIfMissing(r.url, aUrl))
               /\ username' = PromptIfMissing(r.username, aUser)
               /\ password' = PromptIfMissing(r.password, aPass)
               /\ inputs' = (IF ~Truthy(r.url) THEN Ask("url", aUrl) ELSE <<>>)
                              \o (IF ~Truthy(r.username) THEN Ask("username", aUser) ELSE <<>>)
                              \o (IF ~Truthy(r.password) THEN Ask("password", aPass) ELSE <<>>)
          ELSE IF use_env_declines(aUse)
          THEN /\ url' = UrlOrDefault(strip(aUrl))
               /\ username' = strip(aUser)
               /\ password' = strip(aPass)
               /\ inputs' = Ask("use_env", aUse) \o Ask("url", aUrl) \o Ask("username", aUser) \o Ask("password", aPass)
          ELSE /\ url' = r.url
               /\ username' = r.username
               /\ password' = r.password
               /\ inputs' = Ask("use_env", aUse)
  /\ fileExists' = TRUE
  /\ stored' = IF fileExists THEN stored ELSE [url |-> <<>>, username |-> <<>>, password |-> <<>>]
  /\ Exec("main_start", TRUE, "main_check")
  /\ UNCHANGED loginVars

\* get_user_credentials() raises (the file cannot be read or written, stdin is closed)
GetUserCredentialsRaises ==
  /\ Exec("main_start", FALSE, "main_except")
  /\ exc' = "Exception"
  /\ UNCHANGED <<credVars, page, browsers, userField, passField, ticks>>

MainCheckNoPassword ==
  /\ \/ /\ ~AllTruthyNoPassword(url, username, password)
        /\ Exec("main_check", FALSE, "main_finally")
     \/ /\ AllTruthyNoPassword(url, username, password)
        /\ Exec("main_check", TRUE, "start_playwright")
  /\ UNCHANGED <<credVars, loginVars>>

\* if not all([url, username, password]): ... return
MainCheck ==
  /\ \/ /\ ~AllTruthy(url, username, password)
        /\ Exec("main_check", FALSE, "main_finally")
     \/ /\ AllTruthy(url, username, password)
        /\ Exec("main_check", TRUE, "start_playwright")
  /\ UNCHANGED <<credVars, loginVars>>

\* except Exception as e: in main
MainExcept ==
  /\ Exec("main_except", TRUE, "main_finally")
  /\ exc' = "none"
  /\ UNCHANGED <<credVars, page, browsers, userField, passField, ticks>>

\* finally: in main; the process ends
MainFinally ==
  /\ Exec("main_finally", TRUE, "exited")
  /\ UNCHANGED <<credVars, loginVars>>

----------------------------------------------------------------------------
(* login_to_portal(), one action per statement that can raise *)

\* a call with no effect on the modelled state: completes, or raises into `handler`
Call(label, next, handler) ==
  /\ \/ Exec(label, TRUE, next)
     \/ Exec(label, FALSE, handler)
  /\ UNCHANGED <<credVars, loginVars>>

StartPlaywright == Call("start_playwright", "launch", "except")

Launch ==
  /\ \/ /\ Exec("launch", TRUE, "new_context")
        /\ browsers' = browsers + 1
     \/ /\ Exec("launch", FALSE, "except")
        /\ UNCHANGED browsers
  /\ UNCHANGED <<credVars, exc, page, userField, passField, ticks>>

NewContext == Call("new_context", "new_page", "except")

NewPage ==
  /\ \/ /\ Exec("new_page", TRUE, "goto")
        /\ page' = TRUE
     \/ /\ Exec("new_page", FALSE, "except")
        /\ UNCHANGED page
  /\ UNCHANGED <<credVars, exc, browsers, userField, passField, ticks>>

PageGoto == Call("goto", "wait_load", "except")

WaitLoad == Call("wait_load", "wait_user", "except")

WaitUserSwallowed == Call("wait_user", "wait_pass", "wait_pass")

WaitUser == Call("wait_user", "wait_pass", "except")

WaitPassSwallowed == Call("wait_pass", "query_form", "query_form")

WaitPass == Call("wait_pass", "query_form", "except")

QueryForm == Call("query_form", "fill_user", "fb_fill_user")

\* `field` is filled with `value`, or the call raises into `handler`
Fill(label, value, next, handler) ==
  /\ \/ /\ Exec(label, TRUE, next)
        /\ IF label \in {"fill_user", "fb_fill_user"}
           THEN userField' = value /\ UNCHANGED passField
           ELSE passField' = value /\ UNCHANGED userField
     \/ /\ Exec(label, FALSE, handler)
        /\ UNCHANGED <<userField, passField>>
  /\ UNCHANGED <<credVars, exc, page, browsers, ticks>>

FillUser == Fill("fill_user", username, "fill_pass", "fb_fill_user")

FillPass == Fill("fill_pass", password, "click", "fb_fill_user")

ClickUnguarded == Call("click", "wait_submit", "except")

Click == Call("click", "wait_submit", "fb_fill_user")

FbFillUser == Fill("fb_fill_user", username, "fb_fill_pass", "except")

FbFillPassWithUsername == Fill("fb_fill_pass", username, "fb_click", "except")

FbFillPass == Fill("fb_fill_pass", password, "fb_click", "except")

FbClick == Call("fb_click", "wait_submit", "except")

WaitSubmit == Call("wait_submit", "popup_query", "except")

PopupQueryUnguarded ==
  /\ \/ Exec("popup_query", TRUE, "popup_click")
     \/ Exec("popup_query", TRUE, "hub_query")
     \/ Exec("popup_query", FALSE, "except")
  /\ UNCHANGED <<credVars, loginVars>>

\* the query and the test of its result: a close button, none, or an exception
PopupQuery ==
  /\ \/ Exec("popup_query", TRUE, "popup_click")
     \/ Exec("popup_query", TRUE, "hub_query")
     \/ Exec("popup_query", FALSE, "hub_query")
  /\ UNCHANGED <<credVars, loginVars>>

PopupClick == Call("popup_click", "hub_query", "hub_query")

\* the query and the test of its result: a button, none, or an exception
HubQuery ==
  /\ \/ Exec("hub_query", TRUE, "hub_click")
     \/ Exec("hub_query", TRUE, "hub_text_click")
     \/ Exec("hub_query", FALSE, "final_goto")
  /\ UNCHANGED <<credVars, loginVars>>

HubClick == Call("hub_click", "final_goto", "final_goto")

HubTextClick == Call("hub_text_click", "final_goto", "final_goto")

FinalGoto == Call("final_goto", "final_wait", "except")

FinalWait == Call("final_wait", "idle", "except")

\* while True: page.wait_for_timeout(1000)   in the try body
Idle ==
  /\ pc = "idle"
  /\ \/ /\ ticks < MaxTicks
        /\ ticks' = ticks + 1
        /\ UNCHANGED <<pc, trace, steps>>
     \/ /\ Exec("idle", FALSE, "except")
        /\ UNCHANGED ticks
  /\ UNCHANGED <<credVars, exc, page, browsers, userField, passField>>

\* except Exception as e: the three log lines
Except ==
  /\ Exec("except", TRUE, "except_idle")
  /\ UNCHANGED <<credVars, loginVars>>

\* while True: page.wait_for_timeout(1000)   in the handler
ExceptIdle ==
  /\ pc = "except_idle"
  /\ \/ /\ page
        /\ ticks < MaxTicks
        /\ ticks' = ticks + 1
        /\ UNCHANGED <<pc, trace, steps, exc>>
     \/ /\ page
        /\ Exec("except_idle", FALSE, "finally")
        /\ exc' = "Exception"
        /\ UNCHANGED ticks
     \/ /\ ~page
        /\ Exec("except_idle", FALSE, "finally")
        /\ exc' = "UnboundLocalError"
        /\ UNCHANGED ticks
  /\ UNCHANGED <<credVars, page, browsers, userField, passField>>

\* Ctrl+C while blocked in wait_for_timeout: not an Exception, no handler takes it
Interrupt ==
  /\ pc \in {"idle", "except_idle"}
  /\ page
  /\ pc' = "finally"
  /\ exc' = "KeyboardInterrupt"
  /\ UNCHANGED <<credVars, page, browsers, userField, passField, trace, steps, ticks>>

\* finally: logging.info("Script execution completed"); the exception goes on to main
Finally ==
  /\ \/ /\ exc = "KeyboardInterrupt"
        /\ Exec("finally", TRUE, "main_finally")
     \/ /\ exc # "KeyboardInterrupt"
        /\ Exec("finally", TRUE, "main_except")
  /\ UNCHANGED <<credVars, loginVars>>

Next ==
  \/ GetUserCredentials(ShortUseEnvAnswers, ShortAnswers)
  \/ GetUserCredentialsRaises
  \/ MainCheck
  \/ MainExcept
  \/ MainFinally
  \/ StartPlaywright
  \/ Launch
  \/ NewContext
  \/ NewPage
  \/ PageGoto
  \/ WaitLoad
  \/ WaitUser
  \/ WaitPass
  \/ QueryForm
  \/ FillUser
  \/ FillPass
  \/ Click
  \/ FbFillUser
  \/ FbFillPass
  \/ FbClick
  \/ WaitSubmit
  \/ PopupQuery
  \/ PopupClick
  \/ HubQuery
  \/ HubClick
  \/ HubTextClick
  \/ FinalGoto
  \/ FinalWait
  \/ Idle
  \/ Except
  \/ ExceptIdle
  \/ Interrupt
  \/ Finally

Spec == Init /\ [][Next]_vars

\* main() up to the call of login_to_portal, over every stored triple and answer
NextCred ==
  \/ GetUserCredentials(UseEnvAnswers, Strings)
  \/ GetUserCredentialsRaises
  \/ MainCheck
  \/ MainExcept
  \/ MainFinally

SpecCred == InitCred /\ [][NextCred]_vars

----------------------------------------------------------------------------
(* what has happened so far, read off the trace *)

Tried(l) == \E i \in DOMAIN trace : trace[i].op = l

Did(l) == \E i \in DOMAIN trace : trace[i] = [op |-> l, ok |-> TRUE]

Raised(l) == \E i \in DOMAIN trace : trace[i] = [op |-> l, ok |-> FALSE]

Count(l) == Cardinality({i \in DOMAIN trace : trace[i] = [op |-> l, ok |-> TRUE]})

UserFills == Count("fill_user") + Count("fb_fill_user")

PassFills == Count("fill_pass") + Count("fb_fill_pass")

Clicks == Count("click") + Count("fb_click")

SubmitCompleted == Did("click") \/ Did("fb_click")

PrimaryFailed == Raised("query_form") \/ Raised("fill_user") \/ Raised("fill_pass") \/ Raised("click")

FallbackStarted == pc = "fb_fill_user" \/ Tried("fb_fill_user")

StepsEntered == {steps[i] : i \in DOMAIN steps}

StepIndex(st) ==
  CASE st = "Start" -> 1
    [] st = "FormVisible" -> 2
    [] st = "Submitted" -> 3
    [] st = "PopupHandled" -> 4
    [] st = "HubEntered" -> 5
    [] st = "FinalNav" -> 6
    [] st = "Idle" -> 7

Asked == {inputs[i].prompt : i \in DOMAIN inputs}

Answer(prompt) == inputs[CHOOSE i \in DOMAIN inputs : inputs[i].prompt = prompt].answer

\* get_user_credentials has returned
Resolved == Did("main_start")

----------------------------------------------------------------------------
(* the claims *)

\* C1: an exception raised at a step of login_to_portal is caught by the outer
\* handler and the run then idles; login_to_portal is left only by Ctrl+C or,
\* later, by a failure of the idle wait on the open page (the matter of C8),
\* never because of the step's exception.  The code breaks this: when the
\* exception came before `page` was assigned, the handler's own
\* page.wait_for_timeout raises UnboundLocalError and main exits.
C1_StepExceptionEntersIdle == (Did("except") /\ pc = "finally") => exc \in {"KeyboardInterrupt", "Exception"}

\* C2 as stated: every failure of the semantic-query path starts the fallback,
\* and a completed submit step has filled the username exactly once, the
\* password exactly once and clicked submit exactly once.
C2_FilledAndClickedExactlyOnce ==
  /\ PrimaryFailed => FallbackStarted
  /\ SubmitCompleted => UserFills = 1 /\ PassFills = 1 /\ Clicks = 1

\* C2 amended: every failure of the semantic-query path starts the fallback
\* (and nothing else does); a completed submit step has clicked submit exactly
\* once with both fields holding the credentials; a field is filled exactly
\* once, unless the primary path filled it before failing, and then twice.
C2_FallbackAndSingleClick ==
  /\ PrimaryFailed => FallbackStarted
  /\ FallbackStarted => PrimaryFailed
  /\ SubmitCompleted =>
       /\ Clicks = 1
       /\ userField = username
       /\ passField = password
       /\ UserFills = IF PrimaryFailed /\ Did("fill_user") THEN 2 ELSE 1
       /\ PassFills = IF PrimaryFailed /\ Did("fill_pass") THEN 2 ELSE 1

\* C2 witness: the primary path filled both fields and failed at the click,
\* the fallback completed
C2_Witness == Raised("click") /\ Did("fb_click") /\ UserFills = 2 /\ PassFills = 2

\* C3: an exception in the popup step is followed by the hub step, and an
\* exception in the hub step (its by-text fallback included) is followed by the
\* final navigation.
C3_BestEffortStepsDoNotBlock ==
  /\ (Raised("popup_query") \/ Raised("popup_click")) => (pc = "hub_query" \/ Tried("hub_query"))
  /\ (Raised("hub_query") \/ Raised("hub_click") \/ Raised("hub_text_click")) => (pc = "final_goto" \/ Tried("final_goto"))
  /\ (Tried("popup_query") /\ ~Tried("hub_query")) => pc \in {"popup_click", "hub_query"}
  /\ (Tried("hub_query") /\ ~Tried("final_goto")) => pc \in {"hub_click", "hub_text_click", "final_goto"}

\* C3 witness: the popup query raised, the hub's by-text click raised, and the
\* final navigation ran
C3_Witness == Raised("popup_query") /\ Raised("hub_text_click") /\ Did("final_goto")

\* C4: login_to_portal is entered, and a browser launched, only with url,
\* username and password all non-empty; with an empty field main aborts; at
\* most one browser is launched.
C4_BrowserOnlyWithCredentials ==
  /\ browsers <= 1
  /\ (pc \in LoginPcs \/ Tried("start_playwright") \/ browsers > 0) => (Truthy(url) /\ Truthy(username) /\ Truthy(password))
  /\ (Resolved /\ ~(Truthy(url) /\ Truthy(username) /\ Truthy(password))) => (pc \in {"main_check", "main_finally", "exited"} /\ browsers = 0)

\* C4 witness: reuse declined, an empty password typed, main aborted
C4_Witness == pc = "exited" /\ Raised("main_check") /\ Len(inputs) = 4 /\ Truthy(username) /\ password = <<>> /\ browsers = 0

\* C5: with an existing file and an empty field, exactly the empty fields are
\* prompted for; a stored non-empty field is returned unchanged; an empty one
\* becomes the stripped answer, the URL the default when that is empty.
C5_PromptsOnlyEmptyFields ==
  (Resolved /\ ~(Truthy(stored.url) /\ Truthy(stored.username) /\ Truthy(stored.password))) =>
    /\ Asked = {f \in {"url", "username", "password"} : ~Truthy(stored[f])}
    /\ Len(inputs) = Cardinality(Asked)
    /\ url = IF Truthy(stored.url) THEN stored.url ELSE IF strip(Answer("url")) = <<>> THEN default_url ELSE strip(Answer("url"))
    /\ username = IF Truthy(stored.username) THEN stored.username ELSE strip(Answer("username"))
    /\ password = IF Truthy(stored.password) THEN stored.password ELSE strip(Answer("password"))
    /\ \A v \in {url, username, password} : v = <<>> \/ (Head(v) \notin Whitespace /\ v[Len(v)] \notin Whitespace) \/ v \in {stored.url, stored.username, stored.password}

\* C5 witness: only the username is stored; a blank URL answer gives the
\* default URL and the password is the stripped answer
C5_Witness ==
  /\ Resolved
  /\ stored = [url |-> <<>>, username |-> <<" ", "b">>, password |-> None]
  /\ inputs = Ask("url", <<" ">>) \o Ask("password", <<" ", "a">>)
  /\ url = default_url
  /\ username = <<" ", "b">>
  /\ password = <<"a">>

\* C6: with all three fields stored, the stored triple is returned with no
\* credential prompt exactly when the reuse question is confirmed; on a decline
\* all three are prompted for and the result is the typed answers alone.
C6_ReuseOrRetypeAll ==
  (Resolved /\ Truthy(stored.url) /\ Truthy(stored.username) /\ Truthy(stored.password)) =>
    /\ inputs # <<>>
    /\ inputs[1].prompt = "use_env"
    /\ (inputs[1].answer \in ConfirmingAnswers) <=> (Len(inputs) = 1)
    /\ (inputs[1].answer \in ConfirmingAnswers) => <<url, username, password>> = <<stored.url, stored.username, stored.password>>
    /\ (inputs[1].answer \notin ConfirmingAnswers) =>
         /\ [i \in DOMAIN inputs |-> inputs[i].prompt] = <<"use_env", "url", "username", "password">>
         /\ url = IF strip(inputs[2].answer) = <<>> THEN default_url ELSE strip(inputs[2].answer)
         /\ username = strip(inputs[3].answer)
         /\ password = strip(inputs[4].answer)

\* C6 witness: reuse declined with "yes", other credentials typed
C6_Witness ==
  /\ Resolved
  /\ stored = [url |-> <<"a">>, username |-> <<"a">>, password |-> <<" ", "b">>]
  /\ Len(inputs) = 4
  /\ inputs[1].answer = <<"y", "e", "s">>
  /\ url = default_url
  /\ username = <<"a", "a">>
  /\ password = <<>>

\* C7: the steps are entered in the order Start, FormVisible, Submitted,
\* PopupHandled, HubEntered, FinalNav, Idle, none twice and none after a later
\* one; Submitted only after both fields were seen visible, FinalNav only after
\* the submit step completed.
C7_StrictlyLinear ==
  /\ \A i, j \in DOMAIN steps : i < j => StepIndex(steps[i]) < StepIndex(steps[j])
  /\ (steps # <<>>) => steps[1] = "Start"
  /\ (StepOf(pc) # "Outside") => (steps # <<>> /\ steps[Len(steps)] = StepOf(pc))
  /\ ("Submitted" \in StepsEntered) => (Did("wait_user") /\ Did("wait_pass"))
  /\ ("FinalNav" \in StepsEntered) => (SubmitCompleted /\ Did("wait_submit"))

\* C7 witness: a run that went through all seven steps
C7_Witness == steps = <<"Start", "FormVisible", "Submitted", "PopupHandled", "HubEntered", "FinalNav", "Idle">>

\* C8: once the run idles on the open page it idles forever unless Ctrl+C is
\* pressed, also when the one-second wait raises.  The code breaks this: a wait
\* that raises inside the handler's loop leaves login_to_portal.
C8_IdleForever == [][(StepOf(pc) = "Idle" /\ page) => (StepOf(pc') = "Idle" \/ exc' = "KeyboardInterrupt")]_vars

\* C9: after a timeout of the wait for the username or the password field the
\* run is in Idle through the outer handler: no field filled, no click, no
\* popup or hub query, no final navigation.
C9_FormTimeoutGoesToIdle ==
  (Raised("wait_user") \/ Raised("wait_pass")) =>
    /\ steps = <<"Start", "FormVisible", "Idle">>
    /\ pc = "except" \/ Did("except")
    /\ userField = <<>>
    /\ passField = <<>>
    /\ \A l \in {"query_form", "fill_user", "fill_pass", "click", "fb_fill_user", "fb_fill_pass", "fb_click", "wait_submit", "popup_query", "popup_click", "hub_query", "hub_click", "hub_text_click", "final_goto", "final_wait", "idle"} : ~Tried(l) /\ pc # l

\* C9 witness: the password field never became visible and the run idles
C9_Witness == Did("wait_user") /\ Raised("wait_pass") /\ pc = "except_idle" /\ ticks = MaxTicks

\* C10: submit is clicked only with the username field holding the username
\* and the password field holding the password; a field is filled at most
\* twice and submit clicked at most once.
C10_ClickOnlyWhenFilled ==
  /\ (pc \in {"click", "fb_click"} \/ SubmitCompleted) => (userField = username /\ passField = password /\ userField # <<>> /\ passField # <<>>)
  /\ UserFills <= 2
  /\ PassFills <= 2
  /\ Clicks <= 1

\* C10 witness: the primary path failed at the password fill, the fallback
\* filled both fields and clicked, with a username other than the password
C10_Witness == Raised("fill_pass") /\ Did("fb_click") /\ UserFills = 2 /\ PassFills = 1 /\ username # password

====
